---- MODULE Spec2Model ----
(***************************************************************************)
(* A gallery of independent example scripts.  Each script is a straight    *)
(* line of statements with for-loops over fixed collections.  The model    *)
(* has four views of the gallery:                                          *)
(*   "flow"   every script at statement granularity: which estimator       *)
(*            object is constructed, fitted and used where, which          *)
(*            statements plot, and how the loops iterate;                  *)
(*   "face"   the data handling of the face-completion script;             *)
(*   "gmm"    the data handling of the GMM-covariances script;             *)
(*   "mahal"  the data handling of the Mahalanobis-distances script.       *)
(* A run picks one view (and, in the flow view, one script) at Init.       *)
(***************************************************************************)
EXTENDS Integers, Sequences, FiniteSets, TLC

VARIABLES view, script, pc, iters, fitted, lastPlot, face, gmm, mahal, mnist

vars == <<view, script, pc, iters, fitted, lastPlot, face, gmm, mahal, mnist>>

(***************************************************************************)
(* Statement kinds of the flow view.  A record stands for one statement,   *)
(* or for a run of consecutive statements of the same kind that touch no   *)
(* estimator (ln is the line of the first one).                            *)
(*   new   construct an estimator object and bind it                       *)
(*   fit   fit / fit_transform on an object                                *)
(*   use   predict, predict_proba, decision_function, transform, score,    *)
(*         mahalanobis, log_marginal_likelihood, Display.from_estimator    *)
(*   plot  a plotting, figure-layout or display statement                  *)
(*   stmt  any other statement                                             *)
(*   for / end   loop header over n items at nesting depth d, loop end     *)
(* The object a statement touches is <<o, ix>>, or <<o, iters[sel]>> when  *)
(* the loop at depth sel iterates over the objects of a collection.        *)
(***************************************************************************)
Ins(k, o, ix, sel, ln, plot, n, d) ==
  [k |-> k, o |-> o, ix |-> ix, sel |-> sel, ln |-> ln, plot |-> plot,
   n |-> n, d |-> d]

New(o, ix, ln) == Ins("new", o, ix, 0, ln, FALSE, 0, 0)
Fit(o, ix, sel, ln) == Ins("fit", o, ix, sel, ln, FALSE, 0, 0)
Use(o, ix, sel, ln) == Ins("use", o, ix, sel, ln, FALSE, 0, 0)
Disp(o, ix, sel, ln) == Ins("use", o, ix, sel, ln, TRUE, 0, 0)
Plot(ln) == Ins("plot", "", 0, 0, ln, TRUE, 0, 0)
Stmt(ln) == Ins("stmt", "", 0, 0, ln, FALSE, 0, 0)
For(n, d, ln) == Ins("for", "", 0, 0, ln, FALSE, n, d)
End(d) == Ins("end", "", 0, 0, 0, FALSE, 0, d)

(***************************************************************************)
(* covariance/plot_mahalanobis_distances.ipynb, first notebook             *)
(***************************************************************************)
MahalanobisProg ==
  << Stmt(88),
     New("robust_cov", 0, 122), Fit("robust_cov", 0, 0, 122),
     New("emp_cov", 0, 124), Fit("emp_cov", 0, 0, 124),
     Stmt(125), Plot(139), Stmt(149),
     Use("emp_cov", 0, 0, 155), Stmt(156), Plot(157),
     Use("robust_cov", 0, 0, 161), Stmt(162), Plot(163),
     Plot(190), Use("emp_cov", 0, 0, 194), Plot(196),
     Use("robust_cov", 0, 0, 210), Plot(212), Plot(225) >>

(***************************************************************************)
(* covariance/plot_mahalanobis_distances.ipynb, second notebook (SGD early *)
(* stopping): fit_and_score is inlined at its call site.                   *)
(***************************************************************************)
n_sgd_estimators == 3

n_max_iter == 49

SgdProg ==
  << Stmt(285),
     New("estimator", 1, 333), New("estimator", 2, 334),
     New("estimator", 3, 337),
     Stmt(343),
     For(n_sgd_estimators, 1, 347), Stmt(348),
       For(n_max_iter, 2, 349), Stmt(350),
         Stmt(317), Fit("estimator", 0, 1, 321), Stmt(323),
         Use("estimator", 0, 1, 325), Use("estimator", 0, 1, 326),
         Stmt(357),
       End(2),
       Stmt(360),
     End(1),
     Stmt(363), Plot(379),
     For(2, 1, 380), For(3, 2, 381), Plot(382), End(2), Plot(383), End(1),
     Plot(385), Plot(388),
     For(2, 1, 389), For(3, 2, 390), Plot(391), End(2), Plot(392), End(1),
     Plot(394), Plot(396) >>

(***************************************************************************)
(* ensemble/plot_forest_hist_grad_boosting_comparison.ipynb                *)
(***************************************************************************)
EnsembleProg ==
  << Stmt(46),
     New("model", 1, 97), New("model", 2, 100), Stmt(104),
     For(2, 1, 111),
       New("grid_search", 0, 112), Fit("grid_search", 0, 0, 117), Stmt(118),
     End(1),
     Plot(141), Stmt(147),
     For(2, 1, 152),
       Stmt(153), Plot(159), Stmt(174), Plot(176),
       Plot(181), Stmt(195), Plot(197),
     End(1),
     Plot(202) >>

(***************************************************************************)
(* miscellaneous/plot_multioutput_face_completion.ipynb, first notebook    *)
(***************************************************************************)
n_face_estimators == 4

n_faces == 5

FaceProgPredictFirst ==
  << Stmt(37),
     New("estimator", 1, 58), New("estimator", 2, 61),
     New("estimator", 3, 62), New("estimator", 4, 63),
     Stmt(66),
     For(n_face_estimators, 1, 67),
       Use("estimator", 0, 1, 69), Fit("estimator", 0, 1, 68),
     End(1),
     Stmt(72), Plot(75),
     For(n_faces, 1, 78),
       Stmt(79), Plot(81),
       For(n_face_estimators, 2, 91), Stmt(92), Plot(94), End(2),
     End(1),
     Plot(107) >>

FaceProg ==
  << Stmt(37),
     New("estimator", 1, 58), New("estimator", 2, 61),
     New("estimator", 3, 62), New("estimator", 4, 63),
     Stmt(66),
     For(n_face_estimators, 1, 67),
       Fit("estimator", 0, 1, 68), Use("estimator", 0, 1, 69),
     End(1),
     Stmt(72), Plot(75),
     For(n_faces, 1, 78),
       Stmt(79), Plot(81),
       For(n_face_estimators, 2, 91), Stmt(92), Plot(94), End(2),
     End(1),
     Plot(107) >>

(***************************************************************************)
(* miscellaneous/plot_multioutput_face_completion.ipynb, second notebook   *)
(* (partial dependence)                                                    *)
(***************************************************************************)
PartialDependenceProg ==
  << Stmt(160),
     New("tree", 0, 164), New("mlp", 0, 165),
     Fit("tree", 0, 0, 169), Fit("mlp", 0, 0, 170),
     Plot(181), Disp("tree", 0, 0, 183),
     Plot(190), Disp("mlp", 0, 0, 192),
     Plot(215), Plot(229), Plot(245),
     Disp("tree", 0, 0, 261), Disp("mlp", 0, 0, 262) >>

(***************************************************************************)
(* mixture/plot_gmm_covariances.ipynb: make_ellipses is inlined at its     *)
(* call site.                                                              *)
(***************************************************************************)
n_cov_types == 4

n_colors == 3

GmmProg ==
  << Stmt(50), Stmt(77),
     New("estimator", 1, 95), New("estimator", 2, 95),
     New("estimator", 3, 95), New("estimator", 4, 95),
     Stmt(101), Plot(103),
     For(n_cov_types, 1, 109),
       Stmt(112), Fit("estimator", 0, 1, 117), Plot(119),
       For(n_colors, 2, 54), Stmt(55), Plot(68), End(2),
       For(n_colors, 2, 122), Stmt(123), Plot(124), End(2),
       For(n_colors, 2, 128), Stmt(129), Plot(130), End(2),
       Use("estimator", 0, 1, 132), Stmt(133), Plot(134),
       Use("estimator", 0, 1, 136), Stmt(137), Plot(138),
     End(1),
     Plot(144), Plot(147) >>

(***************************************************************************)
(* model_selection/plot_roc_crossval.ipynb                                 *)
(***************************************************************************)
n_splits_roc == 6

RocProgPrintLast ==
  << Stmt(55), Stmt(85), New("classifier", 0, 87), Stmt(89), Plot(93),
     For(n_splits_roc, 1, 94),
       Fit("classifier", 0, 0, 95), Disp("classifier", 0, 0, 96), Stmt(106),
     End(1),
     Plot(115), Plot(127), Plot(142), Stmt(111), Stmt(124) >>

RocProg ==
  << Stmt(55), Stmt(85), New("classifier", 0, 87), Stmt(89), Plot(93),
     For(n_splits_roc, 1, 94),
       Fit("classifier", 0, 0, 95), Disp("classifier", 0, 0, 96), Stmt(106),
     End(1),
     Stmt(111), Plot(115), Stmt(124), Plot(127), Plot(142) >>

(***************************************************************************)
(* unnamed/part_000 (SVM classifiers on iris).  Line 69 rebinds models to  *)
(* a generator, so clf.fit runs when the loop of line 85 draws the next    *)
(* item, before that iteration's body.                                     *)
(***************************************************************************)
SvmIrisProg ==
  << Stmt(55),
     New("clf", 1, 64), New("clf", 2, 65), New("clf", 3, 66),
     New("clf", 4, 67),
     Stmt(69), Stmt(72), Plot(80), Stmt(83),
     For(4, 1, 85),
       Fit("clf", 0, 1, 69), Disp("clf", 0, 1, 86), Plot(96),
     End(1),
     Plot(101) >>

(***************************************************************************)
(* unnamed/part_001 (learning curves): naive_bayes and svc are never       *)
(* fitted by the script.                                                   *)
(***************************************************************************)
LearningCurveProg ==
  << Stmt(42), New("estimator", 1, 43), New("estimator", 2, 44),
     Plot(56), Stmt(58),
     For(2, 1, 70),
       Disp("estimator", 0, 1, 71), Stmt(72), Plot(73),
     End(1),
     Stmt(106), Stmt(115), Stmt(118), Plot(123),
     For(2, 1, 125), Plot(133), End(1),
     Plot(169),
     For(2, 1, 171), Plot(178), End(1),
     Plot(191) >>

(***************************************************************************)
(* unnamed/part_002 (precision-recall): line 203 rebinds classifier to a   *)
(* new object.                                                             *)
(***************************************************************************)
PrecisionRecallProg ==
  << Stmt(120),
     New("classifier", 0, 140), Fit("classifier", 0, 0, 141),
     Disp("classifier", 0, 0, 158), Plot(161),
     Use("classifier", 0, 0, 167), Plot(169),
     Stmt(190),
     New("classifier", 0, 203), Fit("classifier", 0, 0, 206),
     Use("classifier", 0, 0, 207),
     Stmt(216),
     For(3, 1, 219), Stmt(220), End(1),
     Stmt(224), Plot(234), Stmt(251), Plot(253), Stmt(255),
     For(4, 1, 257), Stmt(258), Plot(260), End(1),
     Plot(263),
     For(3, 1, 270), Plot(271), End(1),
     Stmt(279), Plot(283), Plot(286) >>

(***************************************************************************)
(* unnamed/part_003 (t-SNE perplexity): each iteration builds a new TSNE.  *)
(***************************************************************************)
n_perplexities == 4

TsneProg ==
  << Stmt(47), Plot(49), Stmt(50), Plot(59),
     For(n_perplexities, 1, 66),
       Stmt(67), New("tsne", 0, 70), Fit("tsne", 0, 0, 77), Stmt(78),
       Plot(80),
     End(1),
     Stmt(88), Plot(90),
     For(n_perplexities, 1, 95),
       Stmt(96), New("tsne", 0, 99), Fit("tsne", 0, 0, 107), Stmt(108),
       Plot(111),
     End(1),
     Stmt(119), Plot(128),
     For(n_perplexities, 1, 133),
       Stmt(134), New("tsne", 0, 137), Fit("tsne", 0, 0, 144), Stmt(145),
       Plot(148),
     End(1),
     Plot(155) >>

(***************************************************************************)
(* unnamed/part_004 (dictionary-learning denoising): show_with_diff is     *)
(* inlined at its call sites.                                              *)
(***************************************************************************)
n_dict_components == 50

n_transform_algorithms == 4

DenoiseProg ==
  << Stmt(50),
     Plot(87), Stmt(94), Plot(96),
     Stmt(112), Stmt(132),
     New("dico", 0, 134), Fit("dico", 0, 0, 142), Stmt(143), Plot(146),
     For(n_dict_components, 1, 147), Plot(148), End(1),
     Plot(152), Stmt(165),
     For(n_transform_algorithms, 1, 181),
       Stmt(182), Use("dico", 0, 0, 186), Stmt(187),
       Plot(87), Stmt(94), Plot(96),
     End(1),
     Plot(201) >>

(***************************************************************************)
(* unnamed/part_005, first notebook (CO2 forecasting with GPR)             *)
(***************************************************************************)
Co2Prog ==
  << Stmt(31), Plot(69), Stmt(79), Plot(85), Stmt(99), Stmt(180),
     New("gaussian_process", 0, 181), Fit("gaussian_process", 0, 0, 182),
     Stmt(192), Use("gaussian_process", 0, 0, 199), Stmt(200),
     Plot(203), Stmt(227) >>

(***************************************************************************)
(* unnamed/part_005, second notebook (GPC probabilistic predictions)       *)
(***************************************************************************)
n_theta0 == 30

n_theta1 == 29

GpcProg ==
  << Stmt(290),
     New("gp_fix", 0, 296), Fit("gp_fix", 0, 0, 297),
     New("gp_opt", 0, 299), Fit("gp_opt", 0, 0, 300),
     Use("gp_fix", 0, 0, 304), Stmt(302),
     Use("gp_opt", 0, 0, 308), Stmt(306),
     Use("gp_fix", 0, 0, 314), Use("gp_opt", 0, 0, 315), Stmt(311),
     Use("gp_fix", 0, 0, 321), Use("gp_opt", 0, 0, 322), Stmt(318),
     Plot(328), Stmt(335),
     Use("gp_fix", 0, 0, 338), Plot(336),
     Use("gp_opt", 0, 0, 344), Plot(342),
     Plot(348), Plot(355), Stmt(356),
     For(n_theta0, 1, 364),
       For(n_theta1, 2, 362), Use("gp_opt", 0, 0, 361), End(2),
     End(1),
     Stmt(366), Plot(367), Plot(381) >>

(***************************************************************************)
(* unnamed/part_005, third notebook (scalers on data with outliers):       *)
(* make_plot, create_axes and plot_distribution are inlined at each of     *)
(* the ten make_plot calls.                                                *)
(***************************************************************************)
make_plot == << Stmt(608), Plot(522), Plot(567), Stmt(622), Plot(567),
                Plot(639) >>

ScalersProg ==
  << Stmt(461),
     New("scaler", 1, 484), Fit("scaler", 1, 0, 484),
     New("scaler", 2, 485), Fit("scaler", 2, 0, 485),
     New("scaler", 3, 486), Fit("scaler", 3, 0, 486),
     New("scaler", 4, 489), Fit("scaler", 4, 0, 489),
     New("scaler", 5, 493), Fit("scaler", 5, 0, 493),
     New("scaler", 6, 497), Fit("scaler", 6, 0, 497),
     New("scaler", 7, 501), Fit("scaler", 7, 0, 503),
     New("scaler", 8, 507), Fit("scaler", 8, 0, 509),
     New("scaler", 9, 511), Fit("scaler", 9, 0, 511),
     Stmt(515) >>
  \o make_plot \o make_plot \o make_plot \o make_plot \o make_plot
  \o make_plot \o make_plot \o make_plot \o make_plot \o make_plot
  \o << Plot(814) >>

ScriptNames ==
  { "mahalanobis", "sgd", "ensemble", "face", "partial_dependence", "gmm",
    "roc", "svm_iris", "learning_curve", "precision_recall", "tsne",
    "denoise", "co2", "gpc", "scalers" }

Prog(s) ==
  CASE s = "mahalanobis" -> MahalanobisProg
    [] s = "sgd" -> SgdProg
    [] s = "ensemble" -> EnsembleProg
    [] s = "face" -> FaceProg
    [] s = "partial_dependence" -> PartialDependenceProg
    [] s = "gmm" -> GmmProg
    [] s = "roc" -> RocProg
    [] s = "svm_iris" -> SvmIrisProg
    [] s = "learning_curve" -> LearningCurveProg
    [] s = "precision_recall" -> PrecisionRecallProg
    [] s = "tsne" -> TsneProg
    [] s = "denoise" -> DenoiseProg
    [] s = "co2" -> Co2Prog
    [] s = "gpc" -> GpcProg
    [] s = "scalers" -> ScalersProg
    [] OTHER -> << >>

(***************************************************************************)
(* The flow view: an interpreter of the statement lists above.             *)
(***************************************************************************)
MaxDepth == 2

NoIters == [d \in 1..MaxDepth |-> 0]

Done == view = "flow" /\ pc = Len(Prog(script)) + 1

Cur == Prog(script)[pc]

AtKind(k) == view = "flow" /\ pc \in 1..Len(Prog(script)) /\ Cur.k = k

\* the object a statement touches, under the current loop counters
Obj(ins) == <<ins.o, IF ins.sel = 0 THEN ins.ix ELSE iters[ins.sel]>>

\* the end of the loop opened at a, and the header of the loop closed at b
MatchEnd(prog, a) ==
  CHOOSE b \in (a + 1)..Len(prog) :
    /\ prog[b].k = "end" /\ prog[b].d = prog[a].d
    /\ \A c \in (a + 1)..(b - 1) : ~(prog[c].k = "end" /\ prog[c].d = prog[a].d)

MatchFor(prog, b) ==
  CHOOSE a \in 1..(b - 1) :
    /\ prog[a].k = "for" /\ prog[a].d = prog[b].d
    /\ \A c \in (a + 1)..(b - 1) : ~(prog[c].k = "for" /\ prog[c].d = prog[b].d)

IsFitted(x) == x \in DOMAIN fitted /\ fitted[x].done

Bind(x, rec) == [y \in DOMAIN fitted \cup {x} |-> IF y = x THEN rec ELSE fitted[y]]

\* Estimator(...): a new, unfitted object is bound to the name
Construct ==
  /\ AtKind("new")
  /\ fitted' = Bind(Obj(Cur), [done |-> FALSE, at |-> NoIters])
  /\ pc' = pc + 1
  /\ lastPlot' = FALSE
  /\ UNCHANGED <<view, script, iters, face, gmm, mahal, mnist>>

\* estimator.fit(...): the object now holds the result of this fit
FitStep ==
  /\ AtKind("fit")
  /\ fitted' = Bind(Obj(Cur), [done |-> TRUE, at |-> iters])
  /\ pc' = pc + 1
  /\ lastPlot' = FALSE
  /\ UNCHANGED <<view, script, iters, face, gmm, mahal, mnist>>

\* estimator.predict(...) and the like: reads the object, changes nothing
UseStep ==
  /\ AtKind("use")
  /\ pc' = pc + 1
  /\ lastPlot' = Cur.plot
  /\ UNCHANGED <<view, script, iters, fitted, face, gmm, mahal, mnist>>

PlotStep ==
  /\ AtKind("plot")
  /\ pc' = pc + 1
  /\ lastPlot' = TRUE
  /\ UNCHANGED <<view, script, iters, fitted, face, gmm, mahal, mnist>>

StmtStep ==
  /\ AtKind("stmt")
  /\ pc' = pc + 1
  /\ lastPlot' = FALSE
  /\ UNCHANGED <<view, script, iters, fitted, face, gmm, mahal, mnist>>

\* for ... in <n items>: enter the body with the first item, or skip it
ForStep ==
  /\ AtKind("for")
  /\ IF Cur.n = 0
       THEN /\ pc' = MatchEnd(Prog(script), pc) + 1
            /\ iters' = iters
       ELSE /\ pc' = pc + 1
            /\ iters' = [iters EXCEPT ![Cur.d] = 1]
  /\ UNCHANGED <<view, script, fitted, lastPlot, face, gmm, mahal, mnist>>

\* a loop that takes the same item again and again
EndStepMutant ==
  /\ AtKind("end")
  /\ pc' = MatchFor(Prog(script), pc) + 1
  /\ UNCHANGED <<view, script, iters, fitted, lastPlot, face, gmm, mahal, mnist>>

\* end of a loop body: take the next item, or leave the loop
EndStep ==
  /\ AtKind("end")
  /\ LET a == MatchFor(Prog(script), pc) IN
       IF iters[Cur.d] < Prog(script)[a].n
         THEN /\ pc' = a + 1
              /\ iters' = [iters EXCEPT ![Cur.d] = @ + 1]
         ELSE /\ pc' = pc + 1
              /\ iters' = [iters EXCEPT ![Cur.d] = 0]
  /\ UNCHANGED <<view, script, fitted, lastPlot, face, gmm, mahal, mnist>>

\* the loops around statement i that also contain a fit of the same name
Enclosing(prog, i) ==
  {a \in 1..(i - 1) : prog[a].k = "for" /\ MatchEnd(prog, a) > i}

RefitLoops(prog, i) ==
  {a \in Enclosing(prog, i) :
     \E j \in a..MatchEnd(prog, a) : prog[j].k = "fit" /\ prog[j].o = prog[i].o}

\* the object about to be used holds a fit made in the current iteration of
\* every loop that refits it
FreshFit ==
  /\ IsFitted(Obj(Cur))
  /\ \A a \in RefitLoops(Prog(script), pc) :
       fitted[Obj(Cur)].at[Prog(script)[a].d] = iters[Prog(script)[a].d]

NoFace == [pc |-> "off"]

NoGmm == [pc |-> "off"]

NoMahal == [pc |-> "off"]

NoMnist == [pc |-> "off"]

(***************************************************************************)
(* The face view: miscellaneous/plot_multioutput_face_completion.ipynb,    *)
(* lines 37-107.  A face is a row of n_pixels values; every pixel of the   *)
(* data set carries a value of its own, so that a row or a half row is     *)
(* recognised wherever it ends up.  Predicted pixels are the value -1.     *)
(***************************************************************************)
NData == 3

MaxPerson == 30

MaxPixels == 4

person_threshold == 30

\* the person ids of the modelled data set lie on both sides of the threshold
PersonIds == (person_threshold - 1)..MaxPerson

Predicted == 0 - 1

Range(f) == {f[x] : x \in DOMAIN f}

RECURSIVE MaskRows(_, _)
\* rows[keep]: the rows whose mask entry is TRUE, in order
MaskRows(rows, keep) ==
  IF rows = << >> THEN << >>
  ELSE (IF Head(keep) THEN << Head(rows) >> ELSE << >>)
       \o MaskRows(Tail(rows), Tail(keep))

\* a[:, lo:hi] on 0-based columns
Columns(rows, lo, hi) == [r \in 1..Len(rows) |-> SubSeq(rows[r], lo + 1, hi)]

hstack(a, b) == a \o b

\* fetch_olivetti_faces: row r, pixel p
OlivettiData(n, p) == [r \in 1..n |-> [c \in 1..p |-> (r - 1) * p + (c - 1)]]

FaceTrainMutant(data, targets) ==
  MaskRows(data, [r \in 1..Len(targets) |-> targets[r] <= person_threshold])

FaceTrain(data, targets) ==
  MaskRows(data, [r \in 1..Len(targets) |-> targets[r] < person_threshold])

FaceTest(data, targets) ==
  MaskRows(data, [r \in 1..Len(targets) |-> targets[r] >= person_threshold])

\* train[:, : (n_pixels + 1) // 2], lines 50 and 53
UpperHalf(rows, n_pixels) == Columns(rows, 0, (n_pixels + 1) \div 2)

LowerHalfMutant(rows, n_pixels) == Columns(rows, n_pixels \div 2 + 1, n_pixels)

\* train[:, n_pixels // 2 :], lines 52 and 54
LowerHalf(rows, n_pixels) == Columns(rows, n_pixels \div 2, n_pixels)

InitFace ==
  /\ view = "face"
  /\ script = "face" /\ pc = 0 /\ iters = NoIters /\ fitted = << >>
  /\ lastPlot = FALSE
  /\ \E n_pixels \in 2..MaxPixels, targets \in [1..NData -> PersonIds] :
       face = [pc |-> "loaded", n_pixels |-> n_pixels, targets |-> targets,
               data |-> OlivettiData(NData, n_pixels),
               train |-> << >>, test |-> << >>, face_ids |-> << >>,
               X_train |-> << >>, y_train |-> << >>,
               X_test |-> << >>, y_test |-> << >>,
               y_test_predict |-> << >>, i |-> 0,
               true_face |-> << >>, completed_face |-> << >>]
  /\ gmm = NoGmm /\ mahal = NoMahal /\ mnist = NoMnist

FlowIdle == UNCHANGED <<view, script, pc, iters, fitted, lastPlot>>

\* lines 39-40
FaceSplit ==
  /\ view = "face" /\ face.pc = "loaded"
  /\ face' = [face EXCEPT !.pc = "split",
                          !.train = FaceTrain(face.data, face.targets),
                          !.test = FaceTest(face.data, face.targets)]
  /\ FlowIdle /\ UNCHANGED <<gmm, mahal, mnist>>

\* lines 43-46: randint(high, size) draws n_faces integers of 0..high-1,
\* and raises ValueError when high is 0
FaceSelect ==
  /\ view = "face" /\ face.pc = "split"
  /\ IF Len(face.test) = 0
       THEN face' = [face EXCEPT !.pc = "error"]
       ELSE \E ids \in [1..n_faces -> 0..(Len(face.test) - 1)] :
              face' = [face EXCEPT !.pc = "selected",
                                   !.face_ids = ids,
                                   !.test = [k \in 1..n_faces |-> face.test[ids[k] + 1]]]
  /\ FlowIdle /\ UNCHANGED <<gmm, mahal, mnist>>

\* lines 48-54
FaceSlice ==
  /\ view = "face" /\ face.pc = "selected"
  /\ face' = [face EXCEPT !.pc = "sliced",
                          !.X_train = UpperHalf(face.train, face.n_pixels),
                          !.y_train = LowerHalf(face.train, face.n_pixels),
                          !.X_test = UpperHalf(face.test, face.n_pixels),
                          !.y_test = LowerHalf(face.test, face.n_pixels)]
  /\ FlowIdle /\ UNCHANGED <<gmm, mahal, mnist>>

\* lines 66-69, one iteration: fit on (X_train, y_train) raises on an empty
\* training set; predict returns one row per test face with as many values
\* as y_train has columns
FaceFitPredict ==
  /\ view = "face" /\ face.pc = "sliced"
  /\ IF Len(face.X_train) = 0
       THEN face' = [face EXCEPT !.pc = "error"]
       ELSE LET width == Len(face.y_train[1])
                pred == [k \in 1..Len(face.X_test) |-> [c \in 1..width |-> Predicted]]
                all == Append(face.y_test_predict, pred)
            IN face' = [face EXCEPT !.y_test_predict = all,
                                    !.pc = IF Len(all) = n_face_estimators
                                             THEN "plotting" ELSE "sliced"]
  /\ FlowIdle /\ UNCHANGED <<gmm, mahal, mnist>>

\* lines 78-105, one iteration of the outer loop with its inner loop
FacePlotRow ==
  /\ view = "face" /\ face.pc = "plotting" /\ face.i < n_faces
  /\ LET i == face.i + 1 IN
       face' = [face EXCEPT
                  !.i = i,
                  !.true_face = hstack(face.X_test[i], face.y_test[i]),
                  !.completed_face =
                     [j \in 1..n_face_estimators |->
                        hstack(face.X_test[i], face.y_test_predict[j][i])]]
  /\ FlowIdle /\ UNCHANGED <<gmm, mahal, mnist>>

\* line 107
FaceShow ==
  /\ view = "face" /\ face.pc = "plotting" /\ face.i = n_faces
  /\ face' = [face EXCEPT !.pc = "done"]
  /\ FlowIdle /\ UNCHANGED <<gmm, mahal, mnist>>

(***************************************************************************)
(* The gmm view: mixture/plot_gmm_covariances.ipynb, lines 50-147.  The    *)
(* iris table is modelled with per_class samples of each of its three      *)
(* classes, sorted by class as in the data set, and n_features columns;    *)
(* every cell carries a value of its own.  Index arrays hold 0-based       *)
(* indices.  Arrays the library computes (covariances_, means_) are kept   *)
(* as shapes.                                                              *)
(***************************************************************************)
MaxPerClass == 6

n_splits == 4

n_iris_classes == 3

n_features == 4

cov_types == << "spherical", "diag", "tied", "full" >>

IrisTarget(per_class) ==
  [s \in 1..(n_iris_classes * per_class) |-> (s - 1) \div per_class]

IrisData(per_class) ==
  [s \in 1..(n_iris_classes * per_class) |->
     [j \in 1..n_features |-> (s - 1) * n_features + (j - 1)]]

Min(S) == CHOOSE x \in S : \A y \in S : x <= y

RECURSIVE SortedSeq(_)
\* the elements of a set of integers in increasing order
SortedSeq(S) ==
  IF S = {} THEN << >> ELSE << Min(S) >> \o SortedSeq(S \ {Min(S)})

\* a[idx] for an index array, and a[mask] for a boolean mask
Take(a, idx) == [k \in 1..Len(idx) |-> a[idx[k] + 1]]

Where(a, y, label) == MaskRows(a, [r \in 1..Len(y) |-> y[r] = label])

\* np.sort(y)
YOrder(y) ==
  LET below(v) == Cardinality({r \in 1..Len(y) : y[r] < v})
      upto(v) == Cardinality({r \in 1..Len(y) : y[r] <= v})
  IN [j \in 1..Len(y) |->
        CHOOSE v \in {y[r] : r \in 1..Len(y)} : below(v) < j /\ j <= upto(v)]

\* StratifiedKFold without shuffling: fold f receives, of class k, as many
\* samples as y_order[f::n_splits] holds of that class ...
Allocation(y, f, k) ==
  Cardinality({j \in 0..(Len(y) - 1) : j % n_splits = f /\ YOrder(y)[j + 1] = k})

\* ... and the samples of a class go to the folds in index order
TestFold(y, s) ==
  LET k == y[s + 1]
      rank == Cardinality({r \in 0..(s - 1) : y[r + 1] = k})
      before(f) == Cardinality({j \in 0..(Len(y) - 1) :
                      j % n_splits < f /\ YOrder(y)[j + 1] = k})
  IN CHOOSE f \in 0..(n_splits - 1) :
       before(f) <= rank /\ rank < before(f) + Allocation(y, f, k)

\* next(iter(skf.split(X, y))): the first fold
TestIndex(y) == SortedSeq({s \in 0..(Len(y) - 1) : TestFold(y, s) = 0})

TrainIndexMutant(y) == SortedSeq(0..(Len(y) - 1))

TrainIndex(y) == SortedSeq({s \in 0..(Len(y) - 1) : TestFold(y, s) # 0})

RECURSIVE SumColumn(_, _)
SumColumn(rows, j) ==
  IF rows = << >> THEN 0 ELSE Head(rows)[j] + SumColumn(Tail(rows), j)

\* rows.mean(axis=0), kept as the column sums and the number of rows
MeanAxis0(rows) ==
  [sum |-> [j \in 1..n_features |-> SumColumn(rows, j)], n |-> Len(rows)]

ClassMeansMutant(X, y, n_classes) ==
  [i \in 1..n_classes |-> MeanAxis0(Where(X, y, i))]

\* [X_train[y_train == i].mean(axis=0) for i in range(n_classes)]
ClassMeans(X, y, n_classes) ==
  [i \in 1..n_classes |-> MeanAxis0(Where(X, y, i - 1))]

\* shapes of the fitted covariances_ for each covariance_type
CovariancesShape(type, n_components) ==
  CASE type = "spherical" -> << n_components >>
    [] type = "diag" -> << n_components, n_features >>
    [] type = "tied" -> << n_features, n_features >>
    [] type = "full" -> << n_components, n_features, n_features >>

Min2(m) == IF m < 2 THEN m ELSE 2

EllipseCovShapeMutant(type, cov_shape, means_shape) ==
  CASE type = "full" -> << cov_shape[2], cov_shape[3] >>
    [] type = "tied" -> << Min2(cov_shape[1]), Min2(cov_shape[2]) >>
    [] type = "diag" -> << Min2(cov_shape[2]), Min2(cov_shape[2]) >>
    [] type = "spherical" -> << means_shape[2], means_shape[2] >>

\* make_ellipses, lines 55-62: the shape of covariances for component n
EllipseCovShape(type, cov_shape, means_shape) ==
  CASE type = "full" -> << Min2(cov_shape[2]), Min2(cov_shape[3]) >>
    [] type = "tied" -> << Min2(cov_shape[1]), Min2(cov_shape[2]) >>
    [] type = "diag" -> << Min2(cov_shape[2]), Min2(cov_shape[2]) >>
    [] type = "spherical" -> << means_shape[2], means_shape[2] >>

NoFit == [done |-> FALSE, means_init_set |-> FALSE,
          covariances_ |-> << >>, means_ |-> << >>]

InitGmm ==
  /\ view = "gmm"
  /\ script = "gmm" /\ pc = 0 /\ iters = NoIters /\ fitted = << >>
  /\ lastPlot = FALSE
  /\ \E per_class \in n_splits..MaxPerClass :
       gmm = [pc |-> "loaded",
              target |-> IrisTarget(per_class), data |-> IrisData(per_class),
              train_index |-> << >>, test_index |-> << >>,
              X_train |-> << >>, y_train |-> << >>,
              X_test |-> << >>, y_test |-> << >>,
              n_classes |-> 0, index |-> 0,
              means_init |-> [e \in 1..n_cov_types |-> << >>],
              fit |-> [e \in 1..n_cov_types |-> NoFit],
              ellipses |-> [e \in 1..n_cov_types |-> << >>],
              dots |-> [e \in 1..n_cov_types |-> {}],
              crosses |-> [e \in 1..n_cov_types |-> {}],
              predicted |-> [e \in 1..n_cov_types |-> {}]]
  /\ face = NoFace /\ mahal = NoMahal /\ mnist = NoMnist

GmmAt(p) == view = "gmm" /\ gmm.pc = p

GmmIdle == FlowIdle /\ UNCHANGED <<face, mahal, mnist>>

\* lines 81-91
GmmSplit ==
  /\ GmmAt("loaded")
  /\ LET train_index == TrainIndex(gmm.target)
         test_index == TestIndex(gmm.target)
         y_train == Take(gmm.target, train_index)
     IN gmm' = [gmm EXCEPT !.pc = "means_init",
                           !.train_index = train_index,
                           !.test_index = test_index,
                           !.X_train = Take(gmm.data, train_index),
                           !.y_train = y_train,
                           !.X_test = Take(gmm.data, test_index),
                           !.y_test = Take(gmm.target, test_index),
                           !.n_classes = Cardinality(Range(y_train))]
  /\ GmmIdle

\* lines 109-114: estimator.means_init = ...
GmmMeansInit ==
  /\ GmmAt("means_init")
  /\ gmm' = [gmm EXCEPT !.pc = "fit",
                        !.means_init[gmm.index + 1] =
                           ClassMeans(gmm.X_train, gmm.y_train, gmm.n_classes)]
  /\ GmmIdle

\* line 117: estimator.fit(X_train) starts from means_init when it is set
GmmFit ==
  /\ GmmAt("fit")
  /\ gmm' = [gmm EXCEPT !.pc = "make_ellipses",
                        !.fit[gmm.index + 1] =
                           [done |-> TRUE,
                            means_init_set |-> gmm.means_init[gmm.index + 1] # << >>,
                            covariances_ |-> CovariancesShape(cov_types[gmm.index + 1],
                                                              gmm.n_classes),
                            means_ |-> << gmm.n_classes, n_features >>]]
  /\ GmmIdle

\* lines 119-120 with make_ellipses, lines 53-74: eigh of a k x k matrix
\* returns k eigenvalues v, and the ellipse takes v[0] and v[1]
GmmMakeEllipses ==
  /\ GmmAt("make_ellipses")
  /\ LET e == gmm.index + 1
         shape == EllipseCovShape(cov_types[e], gmm.fit[e].covariances_,
                                  gmm.fit[e].means_)
     IN gmm' = [gmm EXCEPT !.pc = "scatter_all",
                           !.ellipses[e] =
                              [n \in 1..n_colors |->
                                 [covariances |-> shape, v |-> shape[1],
                                  width |-> 0, height |-> 1]]]
  /\ GmmIdle

\* lines 122-126: scatter with the default marker, a dot
GmmScatterAll ==
  /\ GmmAt("scatter_all")
  /\ gmm' = [gmm EXCEPT !.pc = "scatter_test",
                        !.dots[gmm.index + 1] =
                           UNION {Range(Where(gmm.data, gmm.target, n - 1)) :
                                    n \in 1..n_colors}]
  /\ GmmIdle

\* lines 127-130: scatter with marker="x"
GmmScatterTest ==
  /\ GmmAt("scatter_test")
  /\ gmm' = [gmm EXCEPT !.pc = "predict_train",
                        !.crosses[gmm.index + 1] =
                           UNION {Range(Where(gmm.X_test, gmm.y_test, n - 1)) :
                                    n \in 1..n_colors}]
  /\ GmmIdle

\* lines 132-134
GmmPredictTrain ==
  /\ GmmAt("predict_train")
  /\ gmm' = [gmm EXCEPT !.pc = "predict_test",
                        !.predicted[gmm.index + 1] = @ \cup {"train"}]
  /\ GmmIdle

\* lines 136-142, and the next item of the loop of line 109
GmmPredictTest ==
  /\ GmmAt("predict_test")
  /\ gmm' = [gmm EXCEPT !.pc = IF gmm.index + 1 < n_cov_types
                                 THEN "means_init" ELSE "legend",
                        !.index = IF gmm.index + 1 < n_cov_types
                                    THEN gmm.index + 1 ELSE gmm.index,
                        !.predicted[gmm.index + 1] = @ \cup {"test"}]
  /\ GmmIdle

\* lines 144-147
GmmShow ==
  /\ GmmAt("legend")
  /\ gmm' = [gmm EXCEPT !.pc = "done"]
  /\ GmmIdle

(***************************************************************************)
(* The mahal view: covariance/plot_mahalanobis_distances.ipynb, lines      *)
(* 91-225, with fewer samples than the script's 125 and 25.  Standard      *)
(* normal draws are the values -1 and 1.  Locations are means, so every    *)
(* location and every centred sample is kept multiplied by n_samples,      *)
(* which keeps them integers.  A squared Mahalanobis distance is kept as   *)
(* the vector that enters the quadratic form together with the estimator   *)
(* whose precision_ weighs it; the power 0.33 is applied to it unchanged.  *)
(***************************************************************************)
MaxSamples == 3

n_mahal_features == 2

gen_cov == << 2, 1 >>

outliers_cov == << 1, 7 >>

DrawValues == {0 - 1, 1}

\* np.random.randn(rows, n_features): every matrix of draws
Randn(rows) == [1..rows -> [1..n_mahal_features -> DrawValues]]

\* np.dot(Z, cov) for a diagonal cov, kept as its diagonal
DotDiag(Z, cov) ==
  [r \in 1..Len(Z) |-> [j \in 1..n_mahal_features |-> Z[r][j] * cov[j]]]

\* a negative index counts from the end, and slices clip to the array
SliceIndex(len, i) ==
  IF i < 0 THEN (IF len + i < 0 THEN 0 ELSE len + i)
  ELSE (IF i > len THEN len ELSE i)

\* a[:stop] and a[start:] on 0-based indices
SliceTo(a, stop) == SubSeq(a, 1, SliceIndex(Len(a), stop))

SliceFromMutant(a, start) == SubSeq(a, SliceIndex(Len(a), start), Len(a))

SliceFrom(a, start) == SubSeq(a, SliceIndex(Len(a), start) + 1, Len(a))

\* X[-n_outliers:] = rows, line 104
AssignTail(X, n_outliers, rows) ==
  LET first == SliceIndex(Len(X), 0 - n_outliers)
  IN [r \in 1..Len(X) |-> IF r > first THEN rows[r - first] ELSE X[r]]

RECURSIVE SumRows(_, _)
SumRows(X, j) == IF X = << >> THEN 0 ELSE Head(X)[j] + SumRows(Tail(X), j)

\* n_samples * np.mean(X, 0)
MeanTimesN(X) == [j \in 1..n_mahal_features |-> SumRows(X, j)]

\* n_samples * X
TimesN(X) ==
  [r \in 1..Len(X) |-> [j \in 1..n_mahal_features |-> Len(X) * X[r][j]]]

\* X - location, row by row
Centre(X, location) ==
  [r \in 1..Len(X) |-> [j \in 1..n_mahal_features |-> X[r][j] - location[j]]]

\* estimator.mahalanobis(obs): the squared distance of each observation to
\* the fitted location_, weighted by the fitted precision_
mahalanobis(estimator, location, obs) ==
  [r \in 1..Len(obs) |->
     [centred |-> Centre(obs, location)[r], precision |-> estimator]]

InitMahal ==
  /\ view = "mahal"
  /\ script = "mahalanobis" /\ pc = 0 /\ iters = NoIters /\ fitted = << >>
  /\ lastPlot = FALSE
  /\ \E n_samples \in 2..MaxSamples :
       \E n_outliers \in 1..(n_samples - 1) :
         mahal = [pc |-> "start", n_samples |-> n_samples,
                  n_outliers |-> n_outliers,
                  X |-> << >>, X_generated |-> << >>, outliers |-> << >>,
                  emp_location |-> << >>, robust_location |-> << >>,
                  emp_mahal |-> << >>, robust_mahal |-> << >>,
                  emp_boxes |-> << >>, robust_boxes |-> << >>]
  /\ face = NoFace /\ gmm = NoGmm /\ mnist = NoMnist

MahalAt(p) == view = "mahal" /\ mahal.pc = p

MahalIdle == FlowIdle /\ UNCHANGED <<face, gmm, mnist>>

\* lines 98-100; X_generated remembers X as it is after line 100
MahalGenerate ==
  /\ MahalAt("start")
  /\ \E Z \in Randn(mahal.n_samples) :
       mahal' = [mahal EXCEPT !.pc = "generated",
                              !.X = DotDiag(Z, gen_cov),
                              !.X_generated = DotDiag(Z, gen_cov)]
  /\ MahalIdle

\* lines 102-104; outliers remembers the rows assigned at line 104
MahalAddOutliers ==
  /\ MahalAt("generated")
  /\ \E Z \in Randn(mahal.n_outliers) :
       mahal' = [mahal EXCEPT !.pc = "contaminated",
                              !.outliers = DotDiag(Z, outliers_cov),
                              !.X = AssignTail(mahal.X, mahal.n_outliers,
                                               DotDiag(Z, outliers_cov))]
  /\ MahalIdle

\* lines 122-124: EmpiricalCovariance fits location_ = X.mean(0); MinCovDet
\* fits location_ as the mean of a subset of the rows, here a single row
MahalFit ==
  /\ MahalAt("contaminated")
  /\ \E r \in 1..Len(mahal.X) :
       mahal' = [mahal EXCEPT !.pc = "fitted",
                              !.emp_location = MeanTimesN(mahal.X),
                              !.robust_location = TimesN(mahal.X)[r]]
  /\ MahalIdle

\* lines 194-204
MahalEmp ==
  /\ MahalAt("fitted")
  /\ LET emp_mahal == mahalanobis("emp_cov", mahal.emp_location,
                                  Centre(TimesN(mahal.X), MeanTimesN(mahal.X)))
     IN mahal' = [mahal EXCEPT !.pc = "emp_plotted",
                               !.emp_mahal = emp_mahal,
                               !.emp_boxes =
                                  << SliceTo(emp_mahal, 0 - mahal.n_outliers),
                                     SliceFrom(emp_mahal, 0 - mahal.n_outliers) >>]
  /\ MahalIdle

\* lines 210-223
MahalRobust ==
  /\ MahalAt("emp_plotted")
  /\ LET robust_mahal == mahalanobis("robust_cov", mahal.robust_location,
                                     Centre(TimesN(mahal.X), mahal.robust_location))
     IN mahal' = [mahal EXCEPT !.pc = "robust_plotted",
                               !.robust_mahal = robust_mahal,
                               !.robust_boxes =
                                  << SliceTo(robust_mahal, 0 - mahal.n_outliers),
                                     SliceFrom(robust_mahal, 0 - mahal.n_outliers) >>]
  /\ MahalIdle

\* line 225
MahalShow ==
  /\ MahalAt("robust_plotted")
  /\ mahal' = [mahal EXCEPT !.pc = "done"]
  /\ MahalIdle

(***************************************************************************)
(* The mnist view: load_mnist of the SGD early-stopping script,            *)
(* covariance/plot_mahalanobis_distances.ipynb, lines 300-311, on a data   *)
(* set of NMnist rows.  Row i of mnist.data is the value i, so a returned  *)
(* row tells which row of the data set it is.                              *)
(***************************************************************************)
NMnist == 3

Digits == {"0", "3", "8"}

MaxNSamples == NMnist + 1

\* the argument n_samples: None, or an integer
NoneArg == [given |-> FALSE]

IntArg(k) == [given |-> TRUE, value |-> k]

MnistData == [i \in 1..NMnist |-> i]

\* np.logical_or(target == class_0, target == class_1), line 306
TwoClassMaskMutant(target, class_0, class_1) ==
  [i \in 1..Len(target) |-> target[i] = class_0]

TwoClassMask(target, class_0, class_1) ==
  [i \in 1..Len(target) |-> target[i] = class_0 \/ target[i] = class_1]

\* a[mask]: the entries of a where mask is True, in order
RECURSIVE BoolIndex(_, _)
BoolIndex(a, mask) ==
  IF a = << >> THEN << >>
  ELSE (IF Head(mask) THEN << Head(a) >> ELSE << >>)
         \o BoolIndex(Tail(a), Tail(mask))

\* one array of shuffle(*arrays): every array is reordered by the same
\* permutation of the row indices
Reorder(a, perm) == [r \in 1..Len(a) |-> a[perm[r]]]

InitMnist ==
  /\ view = "mnist"
  /\ script = "sgd" /\ pc = 0 /\ iters = NoIters /\ fitted = << >>
  /\ lastPlot = FALSE
  /\ \E target \in [1..NMnist -> Digits], class_0 \in Digits,
        class_1 \in Digits,
        n_samples \in {NoneArg} \cup {IntArg(k) : k \in 0..MaxNSamples} :
       mnist = [pc |-> "fetched", data |-> MnistData, target |-> target,
                class_0 |-> class_0, class_1 |-> class_1,
                n_samples |-> n_samples,
                mask |-> << >>, X |-> << >>, y |-> << >>, returned |-> << >>]
  /\ face = NoFace /\ gmm = NoGmm /\ mahal = NoMahal

MnistAt(p) == view = "mnist" /\ mnist.pc = p

MnistIdle == FlowIdle /\ UNCHANGED <<face, gmm, mahal>>

\* line 306
MnistMask ==
  /\ MnistAt("fetched")
  /\ mnist' = [mnist EXCEPT !.pc = "masked",
                            !.mask = TwoClassMask(mnist.target, mnist.class_0,
                                                  mnist.class_1)]
  /\ MnistIdle

\* line 308
MnistShuffle ==
  /\ MnistAt("masked")
  /\ LET X == BoolIndex(mnist.data, mnist.mask)
         y == BoolIndex(mnist.target, mnist.mask)
     IN \E perm \in Permutations(1..Len(X)) :
          mnist' = [mnist EXCEPT !.pc = "shuffled",
                                 !.X = Reorder(X, perm),
                                 !.y = Reorder(y, perm)]
  /\ MnistIdle

\* lines 309-310
MnistTruncate ==
  /\ MnistAt("shuffled")
  /\ IF mnist.n_samples.given
       THEN mnist' = [mnist EXCEPT !.pc = "truncated",
                                   !.X = SliceTo(mnist.X, mnist.n_samples.value),
                                   !.y = SliceTo(mnist.y, mnist.n_samples.value)]
       ELSE mnist' = [mnist EXCEPT !.pc = "truncated"]
  /\ MnistIdle

\* line 311
MnistReturn ==
  /\ MnistAt("truncated")
  /\ mnist' = [mnist EXCEPT !.pc = "returned",
                            !.returned = << mnist.X, mnist.y >>]
  /\ MnistIdle

InitFlow ==
  /\ view = "flow"
  /\ script \in ScriptNames
  /\ pc = 1
  /\ iters = NoIters
  /\ fitted = << >>
  /\ lastPlot = FALSE
  /\ face = NoFace /\ gmm = NoGmm /\ mahal = NoMahal /\ mnist = NoMnist

Init == InitFlow \/ InitFace \/ InitGmm \/ InitMahal \/ InitMnist

Next ==
  \/ Construct \/ FitStep \/ UseStep \/ PlotStep \/ StmtStep
  \/ ForStep \/ EndStep
  \/ FaceSplit \/ FaceSelect \/ FaceSlice \/ FaceFitPredict
  \/ FacePlotRow \/ FaceShow
  \/ GmmSplit \/ GmmMeansInit \/ GmmFit \/ GmmMakeEllipses
  \/ GmmScatterAll \/ GmmScatterTest \/ GmmPredictTrain \/ GmmPredictTest
  \/ GmmShow
  \/ MahalGenerate \/ MahalAddOutliers \/ MahalFit \/ MahalEmp
  \/ MahalRobust \/ MahalShow
  \/ MnistMask \/ MnistShuffle \/ MnistTruncate \/ MnistReturn

Spec == Init /\ [][Next]_vars

\* the statements of the fifteen scripts
FlowNext ==
  \/ Construct \/ FitStep \/ UseStep \/ PlotStep \/ StmtStep
  \/ ForStep \/ EndStep

\* the interpreter runs the next statement whenever there is one, and every
\* library call returns
FairSpec == InitFlow /\ [][FlowNext]_vars /\ WF_vars(FlowNext)

(***************************************************************************)
(* C1 (as stated): in every script an estimator is used (predict,          *)
(* predict_proba, decision_function, transform, score, from_estimator)     *)
(* only after a fit of that same object, and inside a loop that refits     *)
(* it the use reads the fit of the current iteration.                      *)
(***************************************************************************)
C1_UseOnlyAfterFit == AtKind("use") => FreshFit

\* LearningCurveDisplay.from_estimator, part_001 line 71
IsLearningCurveDisplay == script = "learning_curve" /\ Cur.ln = 71

(***************************************************************************)
(* C1 (amended): every use other than LearningCurveDisplay.from_estimator  *)
(* follows a fit of the same object, made in the current iteration when a  *)
(* loop refits it; LearningCurveDisplay.from_estimator is handed the two   *)
(* estimators naive_bayes and svc, which the script never fits.            *)
(***************************************************************************)
C1_UseAfterFitExceptLearningCurve ==
  AtKind("use") =>
    IF IsLearningCurveDisplay THEN ~IsFitted(Obj(Cur)) ELSE FreshFit

\* the ROC classifier, refitted on the second fold, is about to be displayed
C1_Witness ==
  /\ AtKind("use") /\ script = "roc" /\ iters[1] = 2
  /\ fitted[Obj(Cur)].at[1] = 2

(***************************************************************************)
(* C2 (as stated): every script ends in a plot, that is, the last          *)
(* statement a script executes is a plotting, layout or display action.    *)
(***************************************************************************)
C2_EndsInPlot == Done => lastPlot

(***************************************************************************)
(* C2 (amended): every script except the CO2 forecasting one ends in a     *)
(* plotting action; the CO2 script executes one more statement after its   *)
(* last plotting action, the expression gaussian_process.kernel_ of line   *)
(* 227, and ends there.                                                    *)
(***************************************************************************)
C2_EndsInPlotExceptCo2 ==
  Done =>
    IF script = "co2"
      THEN /\ ~lastPlot
           /\ Prog(script)[pc - 1].ln = 227
           /\ Prog(script)[pc - 2].plot
      ELSE lastPlot

\* the GMM script has run to its end, the last statement being plt.show()
C2_Witness == Done /\ script = "gmm" /\ lastPlot

(***************************************************************************)
(* C3: with an even n_pixels the upper half X and the lower half y of a    *)
(* face share no pixel and together hold every pixel once, in order;       *)
(* hstack(X_test[i], y_test[i]) is test face i with exactly n_pixels       *)
(* values, and hstack(X_test[i], prediction[i]) has n_pixels values too,   *)
(* the first of which are X_test[i].                                       *)
(***************************************************************************)
FaceSliced == view = "face" /\ face.pc \in {"sliced", "plotting", "done"}

C3_HalvesPartitionFace ==
  (FaceSliced /\ face.n_pixels % 2 = 0) =>
    /\ \A r \in 1..Len(face.train) :
         /\ Range(face.X_train[r]) \cap Range(face.y_train[r]) = {}
         /\ hstack(face.X_train[r], face.y_train[r]) = face.train[r]
    /\ \A r \in 1..Len(face.test) :
         /\ Range(face.X_test[r]) \cap Range(face.y_test[r]) = {}
         /\ hstack(face.X_test[r], face.y_test[r]) = face.test[r]
    /\ face.i >= 1 =>
         /\ face.true_face = face.test[face.i]
         /\ Len(face.true_face) = face.n_pixels
         /\ \A j \in 1..n_face_estimators :
              /\ Len(face.completed_face[j]) = face.n_pixels
              /\ SubSeq(face.completed_face[j], 1, Len(face.X_test[face.i]))
                   = face.X_test[face.i]
              /\ \A c \in (Len(face.X_test[face.i]) + 1)..face.n_pixels :
                   face.completed_face[j][c] = Predicted

\* the last of the five faces of a 4-pixel data set has been put together
C3_Witness ==
  /\ view = "face" /\ face.pc = "plotting" /\ face.i = n_faces
  /\ face.n_pixels = 4
  /\ face.true_face = face.test[n_faces]
  /\ Len(face.completed_face) = n_face_estimators

(***************************************************************************)
(* C4: train holds exactly the faces of the people with an id below 30,    *)
(* test only faces of people with an id of 30 or more, no person has a     *)
(* face on both sides, and every entry of face_ids is a row index of       *)
(* test as it was when the indices were drawn.                             *)
(***************************************************************************)
PersonOf(row) == face.targets[CHOOSE r \in 1..NData : face.data[r] = row]

C4_IndependentPeople ==
  (view = "face" /\ face.pc # "loaded") =>
    /\ \A r \in 1..NData :
         (face.targets[r] < 30) <=> (face.data[r] \in Range(face.train))
    /\ Len(face.train) = Cardinality({r \in 1..NData : face.targets[r] < 30})
    /\ Range(face.test) \subseteq Range(face.data)
    /\ \A j \in 1..Len(face.test) : PersonOf(face.test[j]) >= 30
    /\ {PersonOf(face.train[j]) : j \in 1..Len(face.train)}
         \cap {PersonOf(face.test[j]) : j \in 1..Len(face.test)} = {}
    /\ \A k \in 1..Len(face.face_ids) :
         face.face_ids[k] \in
           0..(Cardinality({r \in 1..NData : face.targets[r] >= 30}) - 1)

\* five test faces were drawn from two people's faces, one person trains
C4_Witness ==
  /\ view = "face" /\ face.pc = "done"
  /\ Len(face.train) = 1
  /\ Len(face.face_ids) = n_faces
  /\ face.face_ids[1] # face.face_ids[2]

GmmSplitDone == view = "gmm" /\ gmm.pc # "loaded"

Samples == 0..(Len(gmm.target) - 1)

ClassSamples(k) == {x \in Samples : gmm.target[x + 1] = k}

IsPartition ==
  /\ Range(gmm.train_index) \cap Range(gmm.test_index) = {}
  /\ Range(gmm.train_index) \cup Range(gmm.test_index) = Samples
  /\ Len(gmm.train_index) = Cardinality(Range(gmm.train_index))
  /\ Len(gmm.test_index) = Cardinality(Range(gmm.test_index))

GmmScattered(e) ==
  /\ view = "gmm"
  /\ \/ gmm.index + 1 > e
     \/ gmm.index + 1 = e /\ gmm.pc \in {"predict_train", "predict_test", "legend", "done"}

(***************************************************************************)
(* C6: in each subplot the samples drawn as dots are exactly the training  *)
(* set and the samples drawn as crosses are exactly the test set, so no    *)
(* test sample is drawn as a dot.                                          *)
(***************************************************************************)
C6_DotsAreTrainCrossesAreTest ==
  \A e \in 1..n_cov_types :
    GmmScattered(e) =>
      /\ gmm.dots[e] = Range(gmm.X_train)
      /\ gmm.crosses[e] = Range(gmm.X_test)
      /\ gmm.dots[e] \cap Range(gmm.X_test) = {}

GmmEllipsesDone(e) ==
  /\ view = "gmm"
  /\ gmm.ellipses[e] # << >>

(***************************************************************************)
(* C7 (as stated): for every covariance type and every component the       *)
(* ellipse comes from a 2x2 covariance matrix, whose eigen-decomposition   *)
(* yields exactly two eigenvalues, the two axis lengths.                   *)
(***************************************************************************)
C7_EllipseFrom2x2 ==
  \A e \in 1..n_cov_types :
    GmmEllipsesDone(e) =>
      \A n \in 1..n_colors :
        /\ gmm.ellipses[e][n].covariances = << 2, 2 >>
        /\ gmm.ellipses[e][n].v = 2
        /\ gmm.ellipses[e][n].width = 0 /\ gmm.ellipses[e][n].height = 1

(***************************************************************************)
(* C7 (amended): for the covariance types diag, tied and full and every    *)
(* component the ellipse comes from a 2x2 covariance matrix restricted to  *)
(* the first two feature dimensions, whose two eigenvalues become the two  *)
(* axis lengths; for spherical the matrix is the full n_features x         *)
(* n_features one (4x4 for iris), its eigen-decomposition yields           *)
(* n_features eigenvalues, and the first two become the axis lengths.      *)
(***************************************************************************)
C7_EllipseFrom2x2ExceptSpherical ==
  \A e \in 1..n_cov_types :
    GmmEllipsesDone(e) =>
      \A n \in 1..n_colors :
        LET k == IF cov_types[e] = "spherical" THEN n_features ELSE 2 IN
          /\ gmm.ellipses[e][n].covariances = << k, k >>
          /\ gmm.ellipses[e][n].v = k
          /\ gmm.ellipses[e][n].width = 0 /\ gmm.ellipses[e][n].height = 1

\* the ellipses of all four covariance types have been made
C7_Witness ==
  /\ view = "gmm" /\ gmm.pc = "done"
  /\ \A e \in 1..n_cov_types : Len(gmm.ellipses[e]) = n_colors
  /\ gmm.ellipses[4][3].covariances = << 2, 2 >>

TrainOfClass(i) == ClassSamples(i) \cap Range(gmm.train_index)

RECURSIVE SumCells(_, _)
SumCells(S, j) ==
  IF S = {} THEN 0
  ELSE LET x == CHOOSE y \in S : TRUE
       IN gmm.data[x + 1][j] + SumCells(S \ {x}, j)

(***************************************************************************)
(* C8: for each of the four estimators means_init is assigned before fit   *)
(* is called, has n_classes rows, row i is the mean of exactly the         *)
(* training samples with label i and of no test sample, and fit precedes   *)
(* both predict calls.                                                     *)
(***************************************************************************)
C8_SupervisedMeansBeforeFit ==
  view = "gmm" =>
    \A e \in 1..n_cov_types :
      /\ gmm.fit[e].done =>
           /\ gmm.fit[e].means_init_set
           /\ Len(gmm.means_init[e]) = gmm.n_classes
           /\ gmm.n_classes = n_iris_classes
           /\ \A i \in 0..(gmm.n_classes - 1) :
                /\ TrainOfClass(i) \cap Range(gmm.test_index) = {}
                /\ gmm.means_init[e][i + 1].n = Cardinality(TrainOfClass(i))
                /\ \A j \in 1..n_features :
                     gmm.means_init[e][i + 1].sum[j] = SumCells(TrainOfClass(i), j)
      /\ gmm.predicted[e] # {} => gmm.fit[e].done
      /\ (gmm.index + 1 = e /\ gmm.pc \in {"predict_train", "predict_test"})
           => gmm.fit[e].done

\* the last estimator, fitted from its class means, has predicted both sets
C8_Witness ==
  /\ view = "gmm" /\ gmm.pc = "done"
  /\ gmm.fit[n_cov_types].means_init_set
  /\ gmm.predicted[n_cov_types] = {"train", "test"}
  /\ gmm.means_init[n_cov_types][1].n > 0

(***************************************************************************)
(* C9: after the data generation X has n_samples rows, exactly the last    *)
(* n_outliers rows hold the outlier draws, the first n_samples -           *)
(* n_outliers rows keep their generated values, and the box-plot slices    *)
(* [:-n_outliers] and [-n_outliers:] split the distances into those of     *)
(* the inlier rows and those of the outlier rows.                          *)
(***************************************************************************)
C9_OutliersReplaceTail ==
  /\ (view = "mahal" /\ mahal.pc \notin {"start", "generated"}) =>
       LET n_inliers == mahal.n_samples - mahal.n_outliers IN
         /\ Len(mahal.X) = mahal.n_samples
         /\ \A r \in 1..n_inliers : mahal.X[r] = mahal.X_generated[r]
         /\ \A r \in 1..mahal.n_outliers :
              mahal.X[n_inliers + r] = mahal.outliers[r]
         /\ Len(mahal.outliers) = mahal.n_outliers
  /\ view = "mahal" =>
     \A drawn \in {<<mahal.emp_boxes, mahal.emp_mahal>>,
                   <<mahal.robust_boxes, mahal.robust_mahal>>} :
       drawn[1] # << >> =>
         /\ Len(drawn[1][1]) = mahal.n_samples - mahal.n_outliers
         /\ Len(drawn[1][2]) = mahal.n_outliers
         /\ drawn[1][1] \o drawn[1][2] = drawn[2]

\* two of three samples were replaced and both box plots were drawn
C9_Witness ==
  /\ MahalAt("done")
  /\ mahal.n_samples = 3 /\ mahal.n_outliers = 2
  /\ mahal.X[1] = mahal.X_generated[1]
  /\ mahal.X[2] # mahal.X_generated[2]
  /\ Len(mahal.robust_boxes[2]) = 2

Negate(v) == [j \in DOMAIN v |-> 0 - v[j]]

\* d is the sample X[r] centred once by location (up to the sign, which
\* the quadratic form does not see)
CentredOnce(d, r, location) ==
  LET once == Centre(TimesN(mahal.X), location)[r]
  IN d = once \/ d = Negate(once)

(***************************************************************************)
(* C10: emp_mahal[i] and robust_mahal[i] are the Mahalanobis distances of  *)
(* sample X[i] to the location fitted by the MLE and by the MCD estimator: *)
(* the vector that enters the covariance-weighted distance is X[i] centred *)
(* by the estimator's location exactly once.                               *)
(***************************************************************************)
C10_CentredExactlyOnce ==
  view = "mahal" =>
    /\ \A r \in 1..Len(mahal.emp_mahal) :
         CentredOnce(mahal.emp_mahal[r].centred, r, mahal.emp_location)
    /\ \A r \in 1..Len(mahal.robust_mahal) :
         CentredOnce(mahal.robust_mahal[r].centred, r, mahal.robust_location)

\* the rows of the data set whose label is class_0 or class_1
TwoClassRows ==
  {i \in 1..NMnist : mnist.target[i] \in {mnist.class_0, mnist.class_1}}

(***************************************************************************)
(* C11: load_mnist returns X and y of equal length, every returned label   *)
(* is class_0 or class_1, row r of X and label r of y come from the same   *)
(* row of the data set, and the length is the smaller of n_samples and the *)
(* number of samples of the two classes when n_samples is given, and the   *)
(* number of samples of the two classes when n_samples is None.            *)
(***************************************************************************)
C11_LoadMnistPairsAndLength ==
  MnistAt("returned") =>
    LET X == mnist.returned[1]
        y == mnist.returned[2]
        count == Cardinality(TwoClassRows)
    IN /\ Len(X) = Len(y)
       /\ \A r \in 1..Len(y) : y[r] \in {mnist.class_0, mnist.class_1}
       /\ \A r \in 1..Len(X) :
            X[r] \in TwoClassRows /\ y[r] = mnist.target[X[r]]
       /\ \A r, q \in 1..Len(X) : r # q => X[r] # X[q]
       /\ IF mnist.n_samples.given
            THEN Len(X) = (IF mnist.n_samples.value < count
                             THEN mnist.n_samples.value ELSE count)
            ELSE Len(X) = count

\* three rows of both classes, shuffled out of order, cut to two
C11_Witness ==
  /\ MnistAt("returned")
  /\ mnist.class_0 # mnist.class_1
  /\ Cardinality(TwoClassRows) = 3
  /\ mnist.n_samples = IntArg(2)
  /\ mnist.returned[1] = << 3, 1 >>
  /\ mnist.returned[2][1] # mnist.returned[2][2]

(***************************************************************************)
(* C12: every script terminates and produces its visualization: each loop  *)
(* runs over a fixed finite collection, so from the first statement on a   *)
(* plotting statement is eventually executed, and from every statement on  *)
(* execution eventually reaches the end of the script.                     *)
(***************************************************************************)
C12_EveryScriptTerminates ==
  /\ (view = "flow" /\ pc = 1) ~> lastPlot
  /\ (view = "flow") ~> Done

\* the SGD script has left its 3 x 49 sweep and both plotting loops
C12_Witness ==
  /\ Done /\ script = "sgd" /\ iters = NoIters
  /\ \A i \in 1..n_sgd_estimators : IsFitted(<<"estimator", i>>)

====
